---------------------------- MODULE Spec2Model ----------------------------
(***************************************************************************)
(* Model of downloader_bot (src/main.go): the event-intake loop of main,   *)
(* the metadata-fetch goroutines it spawns, the unguarded urlCache map,    *)
(* the download jobs (handleVideoDownload / handleAudioDownload) and their *)
(* progress trackers (trackProgress).                                      *)
(***************************************************************************)
EXTENDS Integers, Sequences, FiniteSets, TLC

(* ------------------------------ bounds -------------------------------- *)
\* number of conversations
NumChats == 2
\* metadata-fetch goroutines that may be spawned
MaxTasks == 2
\* download goroutines that may be spawned
MaxJobs == 2
\* seconds the clock may advance
MaxTime == 15
\* largest byte count of the progress lines that are enumerated
MaxBytes == 50

(* ------------------------- program constants -------------------------- *)
\* main.go:20  MaxFileSize = 150 * 1024 * 1024
MaxFileSize == 157286400
\* main.go:21  UpdateIntervalSec = 3
UpdateIntervalSec == 3

Chats == 1..NumChats
TaskIds == 1..MaxTasks
JobIds == 1..MaxJobs
\* the texts users submit that isValidURL accepts; the i-th submitted is
\* Links[i]; the second has no scheme separator after "http"
Links == <<"https://youtu.be/a", "httpx://youtube.com/a", "https://www.instagram.com/b",
           "https://www.tiktok.com/@c/video/1", "https://fb.com/d">>
Urls == { Links[i] : i \in 1..Len(Links) }

(* ------------------------- strings (Go package strings) --------------- *)
\* strings.HasPrefix(s, prefix)
HasPrefix(s, prefix) ==
    Len(s) >= Len(prefix) /\ SubSeq(s, 1, Len(prefix)) = prefix

\* strings.Contains(s, substr)
Contains(s, substr) ==
    \E i \in 1..(Len(s) - Len(substr) + 1) : SubSeq(s, i, i + Len(substr) - 1) = substr

UpperLetters == "ABCDEFGHIJKLMNOPQRSTUVWXYZ"
LowerLetters == "abcdefghijklmnopqrstuvwxyz"
\* unicode.ToLower of one (ASCII) character
LowerChar(c) ==
    IF \E i \in 1..26 : SubSeq(UpperLetters, i, i) = c
       THEN LET i == CHOOSE k \in 1..26 : SubSeq(UpperLetters, k, k) = c
            IN SubSeq(LowerLetters, i, i)
       ELSE c

\* strings.ToLower(s)
RECURSIVE ToLower(_)
ToLower(s) ==
    IF s = "" THEN "" ELSE LowerChar(SubSeq(s, 1, 1)) \o ToLower(Tail(s))

(* ------------------ the URL classifier: main.go:179-205 --------------- *)
\* main.go:179-188  isValidURL
isValidURL(url) ==
    /\ HasPrefix(url, "http")
    /\ \/ Contains(url, "youtube.com")
       \/ Contains(url, "youtu.be")
       \/ Contains(url, "instagram.com")
       \/ Contains(url, "facebook.com")
       \/ Contains(url, "fb.com")
       \/ Contains(url, "tiktok.com")

\* main.go:190-205  detectPlatform
detectPlatform(url) ==
    LET lowerURL == ToLower(url) IN
    IF Contains(lowerURL, "youtube.com") \/ Contains(lowerURL, "youtu.be")
       THEN "YouTube"
    ELSE IF Contains(lowerURL, "instagram.com") \/ Contains(lowerURL, "instagr.am")
       THEN "Instagram"
    ELSE IF Contains(lowerURL, "facebook.com") \/ Contains(lowerURL, "fb.com")
            \/ Contains(lowerURL, "fb.watch")
       THEN "Facebook"
    ELSE IF Contains(lowerURL, "tiktok.com") \/ Contains(lowerURL, "vm.tiktok.com")
       THEN "TikTok"
    ELSE "Unknown"

\* texts users send that are neither a command nor accepted by isValidURL
InvalidTexts == {"hello", "www.youtube.com/x"}

NoEntry == [URL |-> "", Platform |-> "", Title |-> "", Thumbnail |-> "", IsAudio |-> FALSE,
            present |-> FALSE]

VARIABLES
    sharedLoopVar,  \* TRUE: the build gives `for update := range` one variable for all iterations (Go < 1.22)
    crashed,        \* the process has died (unrecovered panic or runtime fatal error)
    update,         \* the intake loop's variable `update`
    loop,           \* position and locals of the intake loop
    urlCache,       \* the map urlCache: key -> Download
    nextMsgId,      \* per conversation, the id the platform gives the next message
    sentSel,        \* keys <<chat, id>> of the format-selection messages delivered to users
    meta,           \* the metadata-fetch goroutines
    jobs,           \* the download goroutines
    files,          \* names of the output files on disk
    lastStamp,      \* last value time.Now().UnixNano() returned
    trk,            \* the trackProgress goroutines, one per job
    now,            \* the clock, in seconds
    input,          \* the arguments of a call of one function taken by itself
    output          \* what that call returned

vars == <<sharedLoopVar, crashed, update, loop, urlCache, nextMsgId, sentSel,
          meta, jobs, files, lastStamp, trk, now, input, output>>

(* ------------------------------ helpers ------------------------------- *)
\* main.go:175  fmt.Sprintf("%d:%d", chatID, messageID): one key per pair
getCacheKey(chatID, messageID) == <<chatID, messageID>>

\* the id a failed bot.Send leaves in the zero-valued tgbotapi.Message
ZeroMessageID == 0

MaxMsgId == MaxTasks
Keys == Chats \X (0..MaxMsgId)

\* the fallback is forgotten: an invocation error yields an empty title
getVideoInfoNoFallback(err) ==
    IF err THEN <<"", "">> ELSE <<"Sample Title", "http://thumb">>

\* main.go:222-241  getVideoInfo: (title, thumbnail): the fallback on an
\* invocation error (err), or the first two lines of the tool's output
getVideoInfo(err) ==
    IF err THEN <<"Unknown Title", "">> ELSE <<"Sample Title", "http://thumb">>

VideoInfoResults == { getVideoInfo(err) : err \in BOOLEAN }

\* goroutines that are inside an access of the map urlCache, and how
\* (0 stands for the intake loop, t >= 1 for metadata goroutine t)
LoopInMap == IF loop.pc = "cb_read" THEN "read"
             ELSE IF loop.pc = "cb_write" THEN "write" ELSE "none"
MetaInMap(t) == IF meta[t].pc \in {"w_prov", "w_perm", "d_prov"} THEN "write" ELSE "none"
MapUsers == (IF LoopInMap # "none" THEN {0} ELSE {}) \cup
            { t \in TaskIds : MetaInMap(t) # "none" }
MapWriters == (IF LoopInMap = "write" THEN {0} ELSE {}) \cup
              { t \in TaskIds : MetaInMap(t) = "write" }
\* an access by `who` overlaps another task's access and one of the two writes:
\* the Go runtime may stop the process ("fatal error: concurrent map ...")
RacyAccess(who, writing) ==
    \E other \in MapUsers \ {who} : writing \/ other \in MapWriters

\* update.Message is nil while the loop variable holds a callback update
MessageIsNil == update.kind = "cb"
\* the `update` a goroutine of task t reads at update.Message.Chat.ID
ChatSeenBy(t) == IF sharedLoopVar THEN update.chat ELSE meta[t].chat
DerefPanics(t) == sharedLoopVar /\ MessageIsNil

IdleTask == [pc |-> "free", chat |-> 0, fetchErr |-> FALSE, info |-> NoEntry, key0 |-> <<0, 0>>,
             sendChat |-> 0, sentId |-> 0, sendOk |-> FALSE, key1 |-> <<0, 0>>]
IdleLoop == [pc |-> "poll", key |-> <<0, 0>>, info |-> NoEntry, format |-> "", replies |-> <<>>]

FreeTasks == { t \in TaskIds : meta[t].pc = "free" }
\* goroutines are taken in index order, so that equal runs are not counted twice
NextTask == CHOOSE t \in FreeTasks : \A u \in FreeTasks : t <= u

IdleJob == [pc |-> "free", kind |-> "", chat |-> 0, key |-> <<0, 0>>, stamp |-> 0,
            exit |-> "none", matched |-> FALSE, statOk |-> FALSE, size |-> 0, errMsgs |-> 0,
            edited |-> FALSE, uploads |-> 0, outcome |-> "", cleaned |-> FALSE]
FreeJobs == { j \in JobIds : jobs[j].pc = "free" }
NextJob == CHOOSE j \in FreeJobs : \A i \in FreeJobs : j <= i

IdleTracker == [pc |-> "none", lastUpdateTime |-> 0, started |-> 0, progress |-> 0, emitted |-> <<>>]

\* no function is called by itself
NoCall == [fn |-> "none"]
NotReturned == [done |-> FALSE]

(* ------------------------------- Init --------------------------------- *)
\* main.go:34-67  the state when main enters the intake loop
Constructed ==
    /\ sharedLoopVar \in BOOLEAN
    /\ crashed = FALSE
    /\ update = [kind |-> "none", chat |-> 0, text |-> ""]
    /\ loop = IdleLoop
    /\ urlCache = [k \in Keys |-> NoEntry]
    /\ nextMsgId = [c \in Chats |-> 1]
    /\ sentSel = {}
    /\ meta = [t \in TaskIds |-> IdleTask]
    /\ jobs = [j \in JobIds |-> IdleJob]
    /\ files = {}
    /\ lastStamp = 0
    /\ trk = [j \in JobIds |-> IdleTracker]
    /\ now = 0

Init == Constructed /\ input = NoCall /\ output = NotReturned

(* ----------------- the intake loop: main.go:68-172 -------------------- *)
\* main.go:74,128  bot.Send(tgbotapi.NewMessage(update.Message.Chat.ID, <text>))
\* by the loop itself: the messages it sent while handling its update
Reply(to, what) == <<[to |-> to, what |-> what]>>

\* main.go:71-76  a /start command: the welcome message, then the next update
RecvStart(c) ==
    /\ ~crashed /\ loop.pc = "poll"
    /\ update' = [kind |-> "msg", chat |-> c, text |-> "/start"]
    /\ loop' = [IdleLoop EXCEPT !.replies = Reply(c, "welcome")]
    /\ UNCHANGED <<input, output, sharedLoopVar, crashed, urlCache, nextMsgId, sentSel,
                   meta, jobs, files, lastStamp, trk, now>>

\* main.go:79-83,127-130  a text that isValidURL rejects: one reply, nothing else
RecvInvalid(c, text) ==
    /\ ~crashed /\ loop.pc = "poll"
    /\ text # "" /\ ~isValidURL(text)
    /\ update' = [kind |-> "msg", chat |-> c, text |-> text]
    /\ loop' = [IdleLoop EXCEPT !.replies = Reply(c, "invalid URL")]
    /\ UNCHANGED <<input, output, sharedLoopVar, crashed, urlCache, nextMsgId, sentSel,
                   meta, jobs, files, lastStamp, trk, now>>

\* main.go:83-126  a valid URL: info is built and the metadata goroutine spawned
RecvURL(c, u) ==
    /\ ~crashed /\ loop.pc = "poll"
    /\ FreeTasks # {}
    /\ u = Links[NextTask]
    /\ isValidURL(u)
    \* conversations are interchangeable: the first link comes from conversation 1
    /\ NextTask = 1 => c = 1
    /\ update' = [kind |-> "msg", chat |-> c, text |-> u]
    /\ loop' = IdleLoop
    /\ meta' = [meta EXCEPT ![NextTask] =
                  [IdleTask EXCEPT !.pc = "fetch", !.chat = c,
                                   !.info = [NoEntry EXCEPT !.URL = u, !.Platform = detectPlatform(u),
                                                            !.present = TRUE]]]
    /\ UNCHANGED <<input, output, sharedLoopVar, crashed, urlCache, nextMsgId, sentSel,
                   jobs, files, lastStamp, trk, now>>

\* main.go:132-137  a callback of a delivered selection message: the key is
\* built and the lookup urlCache[cacheKey] begins
RecvCallback(k, f) ==
    /\ ~crashed /\ loop.pc = "poll"
    /\ k \in sentSel
    /\ FreeJobs # {}
    /\ update' = [kind |-> "cb", chat |-> k[1], text |-> ""]
    /\ loop' = [IdleLoop EXCEPT !.pc = "cb_read", !.key = getCacheKey(k[1], k[2]),
                                !.format = f]
    /\ UNCHANGED <<input, output, sharedLoopVar, crashed, urlCache, nextMsgId, sentSel,
                   meta, jobs, files, lastStamp, trk, now>>

\* main.go:137  the lookup ends: not found -> the callback is dropped
CbLookup ==
    /\ ~crashed /\ loop.pc = "cb_read"
    /\ IF urlCache[loop.key].present
          THEN loop' = [loop EXCEPT !.pc = "cb_ack", !.info = urlCache[loop.key]]
          ELSE loop' = IdleLoop
    /\ UNCHANGED <<input, output, sharedLoopVar, crashed, update, urlCache, nextMsgId, sentSel,
                   meta, jobs, files, lastStamp, trk, now>>

\* main.go:145-149  bot.Request(callback ack); info.IsAudio set; the store begins
CbBeginStore ==
    /\ ~crashed /\ loop.pc = "cb_ack"
    /\ loop' = [loop EXCEPT !.pc = "cb_write",
                            !.info = [loop.info EXCEPT !.IsAudio = (loop.format = "audio")]]
    /\ UNCHANGED <<input, output, sharedLoopVar, crashed, update, urlCache, nextMsgId, sentSel,
                   meta, jobs, files, lastStamp, trk, now>>

\* main.go:164-168  go handleVideoDownload(...) / go handleAudioDownload(...)
SpawnJob(j, f, chatID, k) == [IdleJob EXCEPT !.pc = "start", !.kind = f, !.chat = chatID, !.key = k]

\* main.go:149-168  the store ends, the message is edited to "0% complete",
\* the download goroutine is spawned
CbStore ==
    /\ ~crashed /\ loop.pc = "cb_write"
    /\ urlCache' = [urlCache EXCEPT ![loop.key] = loop.info]
    /\ jobs' = [jobs EXCEPT ![NextJob] = SpawnJob(NextJob, loop.format, loop.key[1], loop.key)]
    /\ loop' = IdleLoop
    /\ UNCHANGED <<input, output, sharedLoopVar, crashed, update, nextMsgId, sentSel,
                   meta, files, lastStamp, trk, now>>

(* ------------- the metadata goroutine: main.go:93-126 ----------------- *)
\* main.go:94-100  getVideoInfo returns; the store under the provisional key begins
MetaFetch(t) ==
    /\ ~crashed /\ meta[t].pc = "fetch" /\ ~DerefPanics(t)
    /\ \E err \in BOOLEAN :
         LET r == getVideoInfo(err) IN
         meta' = [meta EXCEPT ![t].pc = "w_prov", ![t].fetchErr = err,
                              ![t].info = [@ EXCEPT !.Title = r[1], !.Thumbnail = r[2]],
                              ![t].key0 = getCacheKey(ChatSeenBy(t), 0)]
    /\ UNCHANGED <<input, output, sharedLoopVar, crashed, update, loop, urlCache, nextMsgId, sentSel,
                   jobs, files, lastStamp, trk, now>>

\* main.go:100  urlCache[cacheKey] = info
MetaStoreProv(t) ==
    /\ ~crashed /\ meta[t].pc = "w_prov"
    /\ urlCache' = [urlCache EXCEPT ![meta[t].key0] = meta[t].info]
    /\ meta' = [meta EXCEPT ![t].pc = "send"]
    /\ UNCHANGED <<input, output, sharedLoopVar, crashed, update, loop, nextMsgId, sentSel,
                   jobs, files, lastStamp, trk, now>>

\* main.go:106-113  sentMsg, _ := bot.Send(msg): delivered with a fresh id,
\* or failed, which leaves MessageID at its zero value
MetaSend(t) ==
    /\ ~crashed /\ meta[t].pc = "send" /\ ~DerefPanics(t)
    /\ LET c == ChatSeenBy(t) IN
       \E ok \in BOOLEAN :
         IF ok
            THEN /\ meta' = [meta EXCEPT ![t].pc = "sent", ![t].sendChat = c,
                                         ![t].sentId = nextMsgId[c], ![t].sendOk = TRUE]
                 /\ nextMsgId' = [nextMsgId EXCEPT ![c] = @ + 1]
                 /\ sentSel' = sentSel \cup {<<c, nextMsgId[c]>>}
            ELSE /\ meta' = [meta EXCEPT ![t].pc = "sent", ![t].sendChat = c,
                                         ![t].sentId = ZeroMessageID, ![t].sendOk = FALSE]
                 /\ UNCHANGED <<nextMsgId, sentSel>>
    /\ UNCHANGED <<input, output, sharedLoopVar, crashed, update, loop, urlCache,
                   jobs, files, lastStamp, trk, now>>

\* main.go:116-117  newCacheKey is built; the store under it begins
MetaBeginPerm(t) ==
    /\ ~crashed /\ meta[t].pc = "sent" /\ ~DerefPanics(t)
    /\ meta' = [meta EXCEPT ![t].pc = "w_perm",
                            ![t].key1 = getCacheKey(ChatSeenBy(t), meta[t].sentId)]
    /\ UNCHANGED <<input, output, sharedLoopVar, crashed, update, loop, urlCache, nextMsgId, sentSel,
                   jobs, files, lastStamp, trk, now>>

\* main.go:117-118  urlCache[newCacheKey] = info; the delete begins
MetaStorePerm(t) ==
    /\ ~crashed /\ meta[t].pc = "w_perm"
    /\ urlCache' = [urlCache EXCEPT ![meta[t].key1] = meta[t].info]
    /\ meta' = [meta EXCEPT ![t].pc = "d_prov"]
    /\ UNCHANGED <<input, output, sharedLoopVar, crashed, update, loop, nextMsgId, sentSel,
                   jobs, files, lastStamp, trk, now>>

\* main.go:118-121  delete(urlCache, cacheKey); then the thumbnail test
MetaDeleteProv(t) ==
    /\ ~crashed /\ meta[t].pc = "d_prov"
    /\ urlCache' = [urlCache EXCEPT ![meta[t].key0] = NoEntry]
    /\ meta' = [meta EXCEPT ![t].pc = IF meta[t].info.Thumbnail # "" THEN "thumb" ELSE "done"]
    /\ UNCHANGED <<input, output, sharedLoopVar, crashed, update, loop, nextMsgId, sentSel,
                   jobs, files, lastStamp, trk, now>>

\* main.go:121-125  the thumbnail is sent as a reply to the selection message
MetaThumb(t) ==
    /\ ~crashed /\ meta[t].pc = "thumb" /\ ~DerefPanics(t)
    /\ meta' = [meta EXCEPT ![t].pc = "done"]
    /\ UNCHANGED <<input, output, sharedLoopVar, crashed, update, loop, urlCache, nextMsgId, sentSel,
                   jobs, files, lastStamp, trk, now>>

\* main.go:99,106,116,122  update.Message.Chat.ID read through the shared loop
\* variable while it holds a callback update: nil dereference, the process dies
NilDerefPanic(t) ==
    /\ ~crashed /\ meta[t].pc \in {"fetch", "send", "sent", "thumb"}
    /\ DerefPanics(t)
    /\ crashed' = TRUE
    /\ UNCHANGED <<input, output, sharedLoopVar, update, loop, urlCache, nextMsgId, sentSel,
                   meta, jobs, files, lastStamp, trk, now>>

\* main.go:55,100,117,118,137,149  two goroutines inside the unguarded map, one
\* of them writing: the runtime may end the process with "concurrent map ..."
MapFatal ==
    /\ ~crashed
    /\ \E who \in MapUsers : RacyAccess(who, who \in MapWriters)
    /\ crashed' = TRUE
    /\ UNCHANGED <<input, output, sharedLoopVar, update, loop, urlCache, nextMsgId, sentSel,
                   meta, jobs, files, lastStamp, trk, now>>

(* ---- the download goroutine: main.go:279-405 (video), 407-507 (audio) ---- *)
\* main.go:282,356 / 410,458  the output pattern "video_<ts>.*" / "audio_<ts>.*"
OutputName(kind, stamp) == <<kind, stamp>>

\* sizes a produced file may have, around the ceiling
FileSizes == {1048576, MaxFileSize, MaxFileSize + 1, 209715200}

\* the goroutine returns without telling the user
ReturnSilently(job, what) == [job EXCEPT !.outcome = what, !.pc = "done"]

\* main.go:339-341 (and 350-352, 358-359, 385-387, 403 / the audio twins):
\* bot.Send(tgbotapi.NewMessage(chatID, <text>)), then the goroutine returns
ReportAndReturn(job, what) ==
    [job EXCEPT !.errMsgs = @ + 1, !.outcome = what, !.pc = "done"]

\* the file is left on disk
NoRemove(fs, name) == fs

\* main.go:362 / 464  defer os.Remove(file): runs when the function returns or panics
DeferredRemove(fs, name) == fs \ {name}

\* the size in MiB is compared with the ceiling in bytes
ExceedsLimitInMiB(size) == size \div 1048576 > MaxFileSize

\* main.go:384 / 486  fileInfo.Size() > MaxFileSize
ExceedsLimit(size) == size > MaxFileSize

\* main.go:281,337-345 / 409,439-447  the timestamp is taken, the tool is
\* started; on success the tracker goroutine is spawned
JobStart(j) ==
    /\ ~crashed /\ jobs[j].pc = "start"
    /\ \E ts \in {lastStamp, lastStamp + 1} :
         /\ ts >= 1
         /\ lastStamp' = ts
         /\ \E started \in BOOLEAN :
              IF started
                 THEN /\ jobs' = [jobs EXCEPT ![j].stamp = ts, ![j].pc = "running"]
                      /\ trk' = [trk EXCEPT ![j].pc = "spawned"]
                 ELSE /\ jobs' = [jobs EXCEPT ![j] =
                                    ReportAndReturn([jobs[j] EXCEPT !.stamp = ts], "StartFailed")]
                      /\ UNCHANGED trk
    /\ UNCHANGED <<input, output, sharedLoopVar, crashed, update, loop, urlCache, nextMsgId, sentSel,
                   meta, files, now>>

\* the external tool writes its output file while it runs
ToolWritesFile(j) ==
    /\ ~crashed /\ jobs[j].pc = "running"
    /\ OutputName(jobs[j].kind, jobs[j].stamp) \notin files
    /\ files' = files \cup {OutputName(jobs[j].kind, jobs[j].stamp)}
    /\ UNCHANGED <<input, output, sharedLoopVar, crashed, update, loop, urlCache, nextMsgId, sentSel,
                   meta, jobs, lastStamp, trk, now>>

\* the error of cmd.Wait() is not looked at
AfterWaitUnchecked(job, exitOk) ==
    [job EXCEPT !.exit = IF exitOk THEN "ok" ELSE "failed", !.pc = "glob"]

\* main.go:348-353 / 450-455  err = cmd.Wait(); if err != nil { message; return }
AfterWait(job, exitOk) ==
    IF exitOk THEN [job EXCEPT !.exit = "ok", !.pc = "glob"]
    ELSE ReportAndReturn([job EXCEPT !.exit = "failed"], "RunFailed")

\* main.go:348-353 / 450-455  cmd.Wait() returns: an error ends the job with
\* one message; a tool that never exits leaves the job here
JobWait(j) ==
    /\ ~crashed /\ jobs[j].pc = "running"
    /\ \E exitOk \in BOOLEAN : jobs' = [jobs EXCEPT ![j] = AfterWait(@, exitOk)]
    /\ UNCHANGED <<input, output, sharedLoopVar, crashed, update, loop, urlCache, nextMsgId, sentSel,
                   meta, files, lastStamp, trk, now>>

\* main.go:356-362 / 458-464  filepath.Glob of the pattern; no match ends the
\* job with one message, a match schedules the removal
JobGlob(j) ==
    /\ ~crashed /\ jobs[j].pc = "glob"
    /\ jobs' = [jobs EXCEPT ![j] =
                  IF OutputName(@.kind, @.stamp) \in files
                     THEN [@ EXCEPT !.matched = TRUE, !.pc = "stat"]
                     ELSE ReportAndReturn(@, "FileNotFound")]
    /\ UNCHANGED <<input, output, sharedLoopVar, crashed, update, loop, urlCache, nextMsgId, sentSel,
                   meta, files, lastStamp, trk, now>>

\* main.go:365-388 / 467-490  os.Stat succeeds: the completion edit, then the
\* size gate: too large -> one message and return (the deferred removal runs)
JobStatOk(j) ==
    /\ ~crashed /\ jobs[j].pc = "stat"
    /\ OutputName(jobs[j].kind, jobs[j].stamp) \in files
    /\ \E sz \in FileSizes :
         LET name == OutputName(jobs[j].kind, jobs[j].stamp)
             seen == [jobs[j] EXCEPT !.statOk = TRUE, !.size = sz, !.edited = TRUE]
         IN IF ExceedsLimit(sz)
               THEN /\ files' = DeferredRemove(files, name)
                    /\ jobs' = [jobs EXCEPT ![j] =
                                 [ReportAndReturn(seen, "SizeExceeded")
                                    EXCEPT !.cleaned = (name \notin files')]]
               ELSE /\ jobs' = [jobs EXCEPT ![j] = [seen EXCEPT !.pc = "upload"]]
                    /\ UNCHANGED files
    /\ UNCHANGED <<input, output, sharedLoopVar, crashed, update, loop, urlCache, nextMsgId, sentSel,
                   meta, lastStamp, trk, now>>

\* main.go:365-371 / 467-473  os.Stat fails (the file is gone, or an I/O
\* error): the error is logged, fileInfo is nil and fileInfo.Size() panics; the
\* deferred removal runs while the panic unwinds, then the process dies
JobStatFail(j) ==
    /\ ~crashed /\ jobs[j].pc = "stat"
    /\ LET name == OutputName(jobs[j].kind, jobs[j].stamp) IN
         /\ files' = DeferredRemove(files, name)
         /\ jobs' = [jobs EXCEPT ![j].pc = "panicked", ![j].outcome = "Panicked",
                                 ![j].cleaned = (name \notin files')]
    /\ crashed' = TRUE
    /\ UNCHANGED <<input, output, sharedLoopVar, update, loop, urlCache, nextMsgId, sentSel,
                   meta, lastStamp, trk, now>>

\* main.go:398-405 / 499-507  bot.Send(video|audio): accepted, or rejected with
\* one message; either way the function returns and the deferred removal runs
JobUpload(j) ==
    /\ ~crashed /\ jobs[j].pc = "upload"
    /\ LET name == OutputName(jobs[j].kind, jobs[j].stamp)
           tried == [jobs[j] EXCEPT !.uploads = @ + 1]
       IN /\ files' = DeferredRemove(files, name)
          /\ \E accepted \in BOOLEAN :
               jobs' = [jobs EXCEPT ![j] =
                          [(IF accepted
                               THEN [tried EXCEPT !.outcome = "Delivered", !.pc = "done"]
                               ELSE ReportAndReturn(tried, "UploadFailed"))
                             EXCEPT !.cleaned = (name \notin files')]]
    /\ UNCHANGED <<input, output, sharedLoopVar, crashed, update, loop, urlCache, nextMsgId, sentSel,
                   meta, lastStamp, trk, now>>

(* ------------ float64 arithmetic (IEEE 754 binary64) ------------------ *)
\* a positive float64 is [bits, exp]: its 53 significant bits, the first one
\* 1, most significant first, and the power of two the first bit stands for
MantissaBits == 53

Reverse(seq) == [i \in 1..Len(seq) |-> seq[Len(seq) + 1 - i]]

\* the smallest k with x * 2^k >= y
RECURSIVE ShiftUp(_, _)
ShiftUp(x, y) == IF x >= y THEN 0 ELSE 1 + ShiftUp(2 * x, y)

\* the largest k with y * 2^k <= x, for x >= y
RECURSIVE ShiftDown(_, _)
ShiftDown(x, y) == IF 2 * y > x THEN 0 ELSE 1 + ShiftDown(x, 2 * y)

RECURSIVE Pow2(_)
Pow2(k) ==
    IF k = 0 THEN 1
    ELSE LET h == Pow2(k \div 2) IN IF k % 2 = 0 THEN h * h ELSE 2 * h * h

\* the next n bits of the binary expansion of rem / den (0 <= rem < den), and
\* the remainder they leave
RECURSIVE DivBits(_, _, _)
DivBits(rem, den, n) ==
    IF n = 0 THEN [bits |-> <<>>, rem |-> rem]
    ELSE IF n = 1
       THEN LET b == IF 2 * rem >= den THEN 1 ELSE 0
            IN [bits |-> <<b>>, rem |-> 2 * rem - b * den]
    ELSE LET first == DivBits(rem, den, n \div 2)
             rest == DivBits(first.rem, den, n - n \div 2)
         IN [bits |-> first.bits \o rest.bits, rem |-> rest.rem]

\* bits + 1; all zeros when every bit was 1
Increment(bits) ==
    LET zeros == { i \in 1..Len(bits) : bits[i] = 0 } IN
    IF zeros = {} THEN [i \in 1..Len(bits) |-> 0]
    ELSE LET last == CHOOSE i \in zeros : \A k \in zeros : k <= i
         IN [i \in 1..Len(bits) |-> IF i < last THEN bits[i] ELSE IF i = last THEN 1 ELSE 0]

\* round to nearest, ties to even: the kept bits, incremented when roundUp
Rounded(bits, exp, roundUp) ==
    IF ~roundUp THEN [bits |-> bits, exp |-> exp]
    ELSE LET inc == Increment(bits) IN
         IF inc[1] = 1 THEN [bits |-> inc, exp |-> exp]
         ELSE [bits |-> [inc EXCEPT ![1] = 1], exp |-> exp + 1]

\* float64(x) / float64(y) for integers 0 < x, y below 2^24: the quotient
\* correctly rounded to 53 bits
FloatDiv(x, y) ==
    LET up  == IF x < y THEN ShiftUp(x, y) ELSE 0
        dn  == IF x >= y THEN ShiftDown(x, y) ELSE 0
        num == x * Pow2(up)
        den == y * Pow2(dn)
        r   == DivBits(num - den, den, MantissaBits - 1)
        bits == <<1>> \o r.bits
        roundUp == 2 * r.rem > den \/ (2 * r.rem = den /\ bits[MantissaBits] = 1)
    IN Rounded(bits, dn - up, roundUp)

\* the bits of n, least significant first
RECURSIVE NatToBits(_)
NatToBits(n) == IF n = 0 THEN <<>> ELSE <<n % 2>> \o NatToBits(n \div 2)

\* bits (least significant first) times the small integer c, plus carry: as
\* many bits of the product, and the carry out of them
RECURSIVE MulBits(_, _, _)
MulBits(bits, c, carry) ==
    IF bits = <<>> THEN [bits |-> <<>>, carry |-> carry]
    ELSE IF Len(bits) = 1
       THEN LET v == bits[1] * c + carry IN [bits |-> <<v % 2>>, carry |-> v \div 2]
    ELSE LET h == Len(bits) \div 2
             low == MulBits(SubSeq(bits, 1, h), c, carry)
             high == MulBits(SubSeq(bits, h + 1, Len(bits)), c, low.carry)
         IN [bits |-> low.bits \o high.bits, carry |-> high.carry]

MulSmall(bits, c, carry) ==
    LET m == MulBits(bits, c, carry) IN m.bits \o NatToBits(m.carry)

\* f * c for a small positive integer c: the exact product, correctly rounded
FloatMulSmall(f, c) ==
    LET p == Reverse(MulSmall(Reverse(f.bits), c, 0))
        kept == SubSeq(p, 1, MantissaBits)
        dropped == SubSeq(p, MantissaBits + 1, Len(p))
        roundUp == /\ dropped # <<>>
                   /\ dropped[1] = 1
                   /\ \/ kept[MantissaBits] = 1
                      \/ \E i \in 2..Len(dropped) : dropped[i] = 1
    IN Rounded(kept, f.exp + (Len(p) - MantissaBits), roundUp)

\* the number whose bits, most significant first, are given
RECURSIVE BitsToNat(_)
BitsToNat(bits) ==
    IF bits = <<>> THEN 0
    ELSE IF Len(bits) = 1 THEN bits[1]
    ELSE LET h == Len(bits) \div 2
         IN BitsToNat(SubSeq(bits, 1, h)) * Pow2(Len(bits) - h)
            + BitsToNat(SubSeq(bits, h + 1, Len(bits)))

\* int(f) for a positive f below 2^31: the fraction is dropped
FloatToInt(f) ==
    IF f.exp < 0 THEN 0 ELSE BitsToNat(SubSeq(f.bits, 1, f.exp + 1))

(* ------------------ trackProgress: main.go:509-532 -------------------- *)
\* strings.Split(s, sep) for a one-character sep
RECURSIVE SplitFrom(_, _, _)
SplitFrom(s, sep, field) ==
    IF s = "" THEN <<field>>
    ELSE IF SubSeq(s, 1, 1) = sep THEN <<field>> \o SplitFrom(Tail(s), sep, "")
    ELSE SplitFrom(Tail(s), sep, field \o SubSeq(s, 1, 1))
Split(s, sep) == SplitFrom(s, sep, "")

Digits == "0123456789"
IsDigit(c) == \E i \in 1..10 : SubSeq(Digits, i, i) = c
DigitValue(c) == (CHOOSE i \in 1..10 : SubSeq(Digits, i, i) = c) - 1

RECURSIVE DigitsValue(_, _)
DigitsValue(s, acc) ==
    IF s = "" THEN acc ELSE DigitsValue(Tail(s), 10 * acc + DigitValue(SubSeq(s, 1, 1)))

\* strconv.ParseInt(s, 10, 64): an optional sign, then one or more digits and
\* nothing else (the lines of the model stay below 2^24, far inside int64)
ParseInt(s) ==
    LET signed == s # "" /\ SubSeq(s, 1, 1) \in {"+", "-"}
        body == IF signed THEN Tail(s) ELSE s
        ok == body # "" /\ \A i \in 1..Len(body) : IsDigit(SubSeq(body, i, i))
    IN IF ~ok THEN [ok |-> FALSE, val |-> 0]
       ELSE [ok |-> TRUE,
             val |-> IF signed /\ SubSeq(s, 1, 1) = "-" THEN -DigitsValue(body, 0)
                     ELSE DigitsValue(body, 0)]

\* lines the tool may write: valid pairs, a zero total, a non-numeric field,
\* a line without "/" and a line with two "/"
ProgressLines ==
    { "0/10000000", "5000000/10000000", "10/0", "abc/10", "50", "1/2/3" }

Abs(n) == IF n < 0 THEN -n ELSE n

\* main.go:548  int((float64(downloaded) / float64(total)) * 100): a float64
\* division, a float64 multiplication, and a conversion that drops the fraction
Percent(downloaded, total) ==
    IF downloaded = 0 THEN 0
    ELSE LET p == FloatToInt(FloatMulSmall(FloatDiv(Abs(downloaded), Abs(total)), 100))
         IN IF (downloaded < 0) = (total < 0) THEN p ELSE -p

\* main.go:534-549
parseProgress(line) ==
    LET parts == Split(line, "/") IN
    IF Len(parts) # 2 THEN 0
    ELSE LET downloaded == ParseInt(parts[1])
             total == ParseInt(parts[2])
         IN IF ~downloaded.ok \/ ~total.ok \/ total.val = 0 THEN 0
            ELSE Percent(downloaded.val, total.val)

\* the interval test is dropped
ShouldUpdateAlways(progress, elapsed) == progress > 0

\* main.go:518  progress > 0 && time.Since(lastUpdateTime).Seconds() >= UpdateIntervalSec
ShouldUpdate(progress, elapsed) == progress > 0 /\ elapsed >= UpdateIntervalSec

\* main.go:510-511  the goroutine starts: lastUpdateTime := time.Now()
TrackStart(j) ==
    /\ ~crashed /\ trk[j].pc = "spawned"
    /\ trk' = [trk EXCEPT ![j].pc = "scan", ![j].lastUpdateTime = now, ![j].started = now]
    /\ UNCHANGED <<input, output, sharedLoopVar, crashed, update, loop, urlCache, nextMsgId, sentSel,
                   meta, jobs, files, lastStamp, now>>

\* main.go:513-518  scanner.Scan() delivers a line of the running tool
TrackScan(j, line) ==
    /\ ~crashed /\ trk[j].pc = "scan" /\ jobs[j].pc = "running"
    /\ LET progress == parseProgress(line) IN
         trk' = [trk EXCEPT ![j].progress = progress,
                            ![j].pc = IF ShouldUpdate(progress, now - trk[j].lastUpdateTime)
                                         THEN "sending" ELSE "scan"]
    /\ UNCHANGED <<input, output, sharedLoopVar, crashed, update, loop, urlCache, nextMsgId, sentSel,
                   meta, jobs, files, lastStamp, now>>

\* main.go:520-529  bot.Send(editMsg) issues the progress edit (late: the
\* job goroutine has already issued its completion edit of the same message,
\* main.go:374-381); lastUpdateTime = time.Now()
TrackSend(j) ==
    /\ ~crashed /\ trk[j].pc = "sending"
    /\ trk' = [trk EXCEPT ![j].pc = "scan", ![j].lastUpdateTime = now,
                          ![j].emitted = Append(@, [at |-> now, pct |-> trk[j].progress,
                                                    late |-> jobs[j].edited])]
    /\ UNCHANGED <<input, output, sharedLoopVar, crashed, update, loop, urlCache, nextMsgId, sentSel,
                   meta, jobs, files, lastStamp, now>>

\* main.go:513,532  the stream is closed (the tool exited): Scan returns false
TrackEnd(j) ==
    /\ ~crashed /\ trk[j].pc = "scan" /\ jobs[j].pc # "running"
    /\ trk' = [trk EXCEPT ![j].pc = "ended"]
    /\ UNCHANGED <<input, output, sharedLoopVar, crashed, update, loop, urlCache, nextMsgId, sentSel,
                   meta, jobs, files, lastStamp, now>>

\* a second passes; only trackProgress reads the clock
Tick ==
    /\ ~crashed /\ now < MaxTime
    /\ \E j \in JobIds : trk[j].pc \in {"spawned", "scan", "sending"}
    /\ now' = now + 1
    /\ UNCHANGED <<input, output, sharedLoopVar, crashed, update, loop, urlCache, nextMsgId, sentSel,
                   meta, jobs, files, lastStamp, trk>>

(* --------------------------- specification ---------------------------- *)
\* the intake loop receiving text messages
IntakeText ==
    \/ \E c \in Chats : RecvStart(c)
    \/ \E c \in Chats, text \in InvalidTexts : RecvInvalid(c, text)
    \/ \E c \in Chats, u \in Urls : RecvURL(c, u)

\* the intake loop handling callbacks
IntakeCallback ==
    \/ \E k \in Keys, f \in {"video", "audio"} : RecvCallback(k, f)
    \/ CbLookup
    \/ CbBeginStore
    \/ CbStore

\* the steps of the metadata goroutines, and the map ending the process
MetaSteps ==
    \/ \E t \in TaskIds : MetaFetch(t)
    \/ \E t \in TaskIds : MetaStoreProv(t)
    \/ \E t \in TaskIds : MetaSend(t)
    \/ \E t \in TaskIds : MetaBeginPerm(t)
    \/ \E t \in TaskIds : MetaStorePerm(t)
    \/ \E t \in TaskIds : MetaDeleteProv(t)
    \/ \E t \in TaskIds : MetaThumb(t)
    \/ MapFatal

\* the metadata goroutines, and the ways they and the map end the process
MetaNext ==
    \/ MetaSteps
    \/ \E t \in TaskIds : NilDerefPanic(t)

\* the download goroutines and the external tool
JobNext ==
    \/ \E j \in JobIds : JobStart(j)
    \/ \E j \in JobIds : ToolWritesFile(j)
    \/ \E j \in JobIds : JobWait(j)
    \/ \E j \in JobIds : JobGlob(j)
    \/ \E j \in JobIds : JobStatOk(j)
    \/ \E j \in JobIds : JobStatFail(j)
    \/ \E j \in JobIds : JobUpload(j)

\* the progress trackers and the clock
TrackNext ==
    \/ \E j \in JobIds : TrackStart(j)
    \/ \E j \in JobIds, line \in ProgressLines : TrackScan(j, line)
    \/ \E j \in JobIds : TrackSend(j)
    \/ \E j \in JobIds : TrackEnd(j)
    \/ Tick

Next == IntakeText \/ IntakeCallback \/ MetaNext \/ JobNext \/ TrackNext

\* the whole program; its state space is the product of the three parts
\* below, which are explored separately: RegistrySpec, JobSpec, TrackSpec
Spec == Init /\ [][Next]_vars

\* URL submission, metadata fetch and callbacks over the registry; the
\* download goroutines that callbacks spawn are not scheduled, and the texts
\* that isValidURL rejects are left to IntakeSpec
RegistryNext ==
    \/ \E c \in Chats : RecvStart(c)
    \/ \E c \in Chats, u \in Urls : RecvURL(c, u)
    \/ IntakeCallback
    \/ MetaNext
RegistrySpec == Init /\ [][RegistryNext]_vars

\* text messages of every kind and the metadata goroutines, before any callback
IntakeNext == IntakeText \/ MetaSteps
IntakeSpec == Init /\ [][IntakeNext]_vars

\* the state after one URL was submitted in conversation 1 and its metadata
\* goroutine ran to its end: the session sits under its permanent key <<1, 1>>
InitSession ==
    /\ sharedLoopVar \in BOOLEAN
    /\ crashed = FALSE
    /\ update = [kind |-> "msg", chat |-> 1, text |-> "https://youtu.be/a"]
    /\ loop = IdleLoop
    /\ urlCache = [k \in Keys |->
                     IF k = <<1, 1>>
                        THEN [URL |-> "https://youtu.be/a", Platform |-> "YouTube", Title |-> "Sample Title",
                              Thumbnail |-> "http://thumb", IsAudio |-> FALSE, present |-> TRUE]
                        ELSE NoEntry]
    /\ nextMsgId = [c \in Chats |-> IF c = 1 THEN 2 ELSE 1]
    /\ sentSel = {<<1, 1>>}
    /\ meta = [t \in TaskIds |->
                 IF t = 1
                    THEN [pc |-> "done", chat |-> 1, fetchErr |-> FALSE,
                          info |-> [URL |-> "https://youtu.be/a", Platform |-> "YouTube", Title |-> "Sample Title",
                                    Thumbnail |-> "http://thumb", IsAudio |-> FALSE, present |-> TRUE],
                          key0 |-> <<1, 0>>, sendChat |-> 1, sentId |-> 1, sendOk |-> TRUE,
                          key1 |-> <<1, 1>>]
                    ELSE IdleTask]
    /\ jobs = [j \in JobIds |-> IdleJob]
    /\ files = {}
    /\ lastStamp = 0
    /\ trk = [j \in JobIds |-> IdleTracker]
    /\ now = 0
    /\ input = NoCall /\ output = NotReturned

\* callbacks on a registered session and the download goroutines they spawn
DownloadNext == IntakeCallback \/ JobNext
JobSpec == InitSession /\ [][DownloadNext]_vars

\* the state right after a callback "video" on that session was handled: the
\* download goroutine is spawned and has not run yet
InitSpawned ==
    /\ sharedLoopVar \in BOOLEAN
    /\ crashed = FALSE
    /\ update = [kind |-> "cb", chat |-> 1, text |-> ""]
    /\ loop = IdleLoop
    /\ urlCache = [k \in Keys |->
                     IF k = <<1, 1>>
                        THEN [URL |-> "https://youtu.be/a", Platform |-> "YouTube", Title |-> "Sample Title",
                              Thumbnail |-> "http://thumb", IsAudio |-> FALSE, present |-> TRUE]
                        ELSE NoEntry]
    /\ nextMsgId = [c \in Chats |-> IF c = 1 THEN 2 ELSE 1]
    /\ sentSel = {<<1, 1>>}
    /\ meta = [t \in TaskIds |->
                 IF t = 1
                    THEN [pc |-> "done", chat |-> 1, fetchErr |-> FALSE,
                          info |-> [URL |-> "https://youtu.be/a", Platform |-> "YouTube", Title |-> "Sample Title",
                                    Thumbnail |-> "http://thumb", IsAudio |-> FALSE, present |-> TRUE],
                          key0 |-> <<1, 0>>, sendChat |-> 1, sentId |-> 1, sendOk |-> TRUE,
                          key1 |-> <<1, 1>>]
                    ELSE IdleTask]
    /\ jobs = [j \in JobIds |-> IF j = 1 THEN SpawnJob(1, "video", 1, <<1, 1>>) ELSE IdleJob]
    /\ files = {}
    /\ lastStamp = 0
    /\ trk = [j \in JobIds |-> IdleTracker]
    /\ now = 0
    /\ input = NoCall /\ output = NotReturned

\* one download goroutine, its tool and its progress tracker, with the clock
TrackSpec == InitSpawned /\ [][JobNext \/ TrackNext]_vars

(* ------------- the classifier taken by itself: main.go:179-205 -------- *)
\* what a text may begin with, and the hosts it may name
Schemes == {"http://", "https://", "HTTP://", "httpx://", "http", "ftp://", "www.", ""}
Hosts == {"youtube.com", "youtu.be", "YouTube.com", "instagram.com", "instagr.am",
          "INSTAGRAM.COM", "facebook.com", "fb.com", "fb.watch", "tiktok.com",
          "vm.tiktok.com", "TikTok.com", "example.com"}
\* texts naming one host, or two
ClassifierTexts ==
    { s \o h \o "/v" : s \in Schemes, h \in Hosts } \cup
    { s \o h[1] \o "/?next=" \o h[2] : s \in Schemes, h \in Hosts \X Hosts }

InitClassifier ==
    /\ Constructed
    /\ input \in { [fn |-> "classify", url |-> t] : t \in ClassifierTexts }
    /\ output = NotReturned

\* main.go:83-85  isValidURL(url) and detectPlatform(url) of one text
Classify ==
    /\ input.fn = "classify" /\ ~output.done
    /\ output' = [done |-> TRUE, valid |-> isValidURL(input.url),
                   platform |-> detectPlatform(input.url)]
    /\ UNCHANGED <<input, sharedLoopVar, crashed, update, loop, urlCache, nextMsgId, sentSel,
                   meta, jobs, files, lastStamp, trk, now>>

ClassifierSpec == InitClassifier /\ [][Classify]_vars

(* ------------ parseProgress taken by itself: main.go:534-549 ---------- *)
\* strconv.FormatInt(n, 10), as the tool's progress template prints a count
RECURSIVE FormatNat(_)
FormatNat(n) ==
    IF n < 10 THEN SubSeq(Digits, n + 1, n + 1)
    ELSE FormatNat(n \div 10) \o SubSeq(Digits, (n % 10) + 1, (n % 10) + 1)
FormatInt(n) == IF n < 0 THEN "-" \o FormatNat(-n) ELSE FormatNat(n)

\* the lines "<downloaded>/<total>" of all small byte counts and of some large
\* ones
CountPairs ==
    ((0..MaxBytes) \X (0..MaxBytes)) \cup
    { <<29, 100>>, <<57, 100>>, <<5000000, 10000000>>, <<9999999, 10000000>> }
PairLines ==
    { [fn |-> "parseProgress", form |-> "pair", downloaded |-> p[1], total |-> p[2],
       line |-> FormatInt(p[1]) \o "/" \o FormatInt(p[2])] : p \in CountPairs }
\* lines of another form: no "/", two "/", a field that is no number
OtherLines ==
    { [fn |-> "parseProgress", form |-> "other", downloaded |-> 0, total |-> 0, line |-> l] :
        l \in {"", "50", "abc/10", "10/abc", "1/2/3", "/", "5/", "/5", " 5/10", "5/10 ",
               "5.0/10", "NA/NA", "[download]  50.0% of 10MiB"} }

InitProgress ==
    /\ Constructed
    /\ input \in PairLines \cup OtherLines
    /\ output = NotReturned

\* main.go:517  progress := parseProgress(line)
Parse ==
    /\ input.fn = "parseProgress" /\ ~output.done
    /\ output' = [done |-> TRUE, progress |-> parseProgress(input.line)]
    /\ UNCHANGED <<input, sharedLoopVar, crashed, update, loop, urlCache, nextMsgId, sentSel,
                   meta, jobs, files, lastStamp, trk, now>>

ProgressSpec == InitProgress /\ [][Parse]_vars

(* ------ the tool's arguments: main.go:285-328 (video), 412-430 (audio) ---- *)
\* main.go:285-309  the format code chosen from platform and quality token
formatCode(platform, quality) ==
    IF platform = "YouTube"
       THEN IF quality = "360p"
               THEN "18/bestvideo[height<=360]+bestaudio/best[height<=360]"
            ELSE IF quality = "480p"
               THEN "135+bestaudio/bestvideo[height<=480]+bestaudio/best[height<=480]"
            ELSE IF quality = "720p"
               THEN "22/136+bestaudio/bestvideo[height<=720]+bestaudio/best[height<=720]"
            ELSE "best"
    ELSE IF platform = "Instagram" \/ platform = "Facebook" \/ platform = "TikTok"
       THEN IF quality = "medium" THEN "worst[ext=mp4]/worst" ELSE "best[ext=mp4]/best"
    ELSE "best"

\* the flag is appended for TikTok as well
platformOptionsWithTikTok(platform) ==
    IF platform \in {"Instagram", "Facebook", "TikTok"} THEN <<"--no-check-certificate">> ELSE <<>>

\* main.go:322-325 / 424-427  switch info.Platform { case "Instagram", "Facebook": ... }
platformOptions(platform) ==
    IF platform \in {"Instagram", "Facebook"} THEN <<"--no-check-certificate">> ELSE <<>>

ProgressTemplate == "%(progress.downloaded_bytes)s/%(progress.total_bytes)s"

\* main.go:312-328  ytdlpArgs of handleVideoDownload
videoArgs(info, quality, videoOutput) ==
    <<"-f", formatCode(info.Platform, quality), "--remux-video", "mp4", "-o", videoOutput,
      "--newline", "--progress-template", ProgressTemplate, "--no-playlist">>
    \o platformOptions(info.Platform) \o <<info.URL>>

\* main.go:413-430  ytdlpArgs of handleAudioDownload
audioArgs(info, audioOutput) ==
    <<"-x", "--audio-format", "mp3", "--audio-quality", "0", "-o", audioOutput,
      "--newline", "--progress-template", ProgressTemplate, "--no-playlist">>
    \o platformOptions(info.Platform) \o <<info.URL>>

Platforms == {"YouTube", "Instagram", "Facebook", "TikTok", "Unknown"}
\* main.go:138-142  the quality tokens a callback may carry: those of the
\* keyboards (main.go:243-277) and others
QualityTokens == {"360p", "480p", "720p", "medium", "best", "mp3", "1080p", ""}

InitFormat ==
    /\ Constructed
    /\ input \in { [fn |-> "args", format |-> f, quality |-> q,
                     info |-> [NoEntry EXCEPT !.URL = "https://example.com/v", !.Platform = p,
                                              !.IsAudio = (f = "audio"), !.present = TRUE]] :
                    f \in {"video", "audio"}, q \in QualityTokens, p \in Platforms }
    /\ output = NotReturned

\* main.go:164-168, 282-328, 410-430  the handler of the chosen format builds
\* the arguments of the tool
BuildArgs ==
    /\ input.fn = "args" /\ ~output.done
    /\ output' = [done |-> TRUE,
                   args |-> IF input.format = "video"
                               THEN videoArgs(input.info, input.quality, "video_1.%(ext)s")
                               ELSE audioArgs(input.info, "audio_1.%(ext)s")]
    /\ UNCHANGED <<input, sharedLoopVar, crashed, update, loop, urlCache, nextMsgId, sentSel,
                   meta, jobs, files, lastStamp, trk, now>>

FormatSpec == InitFormat /\ [][BuildArgs]_vars

(* ------------------------------ claims -------------------------------- *)
Completed(t) == meta[t].pc = "done"

\* C1: once the metadata-fetch task of a submitted URL has completed, the
\* provisional key <<conversation, 0>> holds nothing and, the selection message
\* having been sent, the permanent key <<conversation, id of that message>>
\* holds that URL's session, in every interleaving.  (Stated for the builds
\* in which every iteration of the intake loop has its own `update`, so that
\* a violation does not rest on the loop variable being shared.)
C1_KeyLifecycle ==
    \A t \in TaskIds :
        (~sharedLoopVar /\ Completed(t) /\ meta[t].sendOk) =>
            /\ ~urlCache[getCacheKey(meta[t].chat, 0)].present
            /\ urlCache[getCacheKey(meta[t].chat, meta[t].sentId)].present
            /\ urlCache[getCacheKey(meta[t].chat, meta[t].sentId)].URL = meta[t].info.URL

\* C2: when the callback handler looks up the key of a selection message that
\* was already sent, the session is in the registry.  (Stated, as C1, for the
\* builds with one `update` per iteration.)
C2_CallbackFindsSession ==
    (~sharedLoopVar /\ loop.pc = "cb_read" /\ loop.key \in sentSel) =>
        urlCache[loop.key].present

\* C3: at no time are two goroutines inside a read, write or delete of the
\* registry.  (Stated, as C1, for the builds with one `update` per iteration.)
C3_RegistrySerialized == ~sharedLoopVar => Cardinality(MapUsers) <= 1

Running(j) == jobs[j].pc \in {"start", "running", "glob", "stat", "upload"}

\* C4: for every registry key at most one download job is running.
C4_OneJobPerKey ==
    \A i, j \in JobIds : (i # j /\ Running(i) /\ Running(j)) => jobs[i].key # jobs[j].key

TerminalConditions == {"StartFailed", "RunFailed", "FileNotFound", "SizeExceeded", "UploadFailed"}

\* C5: a job that ended in a terminal condition (spawn failure, non-zero exit,
\* file missing, size ceiling exceeded, upload rejected) has sent exactly one
\* new chat message and its goroutine has returned; no job sends two such
\* messages and none uploads twice.
C5_OneMessagePerTerminal ==
    \A j \in JobIds :
        /\ jobs[j].errMsgs <= 1
        /\ jobs[j].uploads <= 1
        /\ jobs[j].outcome \in TerminalConditions =>
               (jobs[j].errMsgs = 1 /\ jobs[j].pc = "done")
        /\ jobs[j].pc = "done" =>
               (jobs[j].outcome \in TerminalConditions \/
                (jobs[j].outcome = "Delivered" /\ jobs[j].errMsgs = 0))

C5_Witness ==
    \E i, j \in JobIds :
        /\ jobs[i].outcome = "UploadFailed" /\ jobs[i].errMsgs = 1 /\ jobs[i].pc = "done"
        /\ jobs[j].outcome = "StartFailed" /\ jobs[j].errMsgs = 1 /\ jobs[j].pc = "done"

\* C6: a job that matched an output file and whose goroutine has ended
\* (returned, or panicked after a stat failure) left no such file behind.
C6_FileRemovedAtEnd ==
    \A j \in JobIds :
        (jobs[j].matched /\ jobs[j].pc \in {"done", "panicked"}) => jobs[j].cleaned

C6_Witness ==
    \E i, j \in JobIds :
        /\ jobs[i].matched /\ jobs[i].pc = "panicked" /\ jobs[i].cleaned
        /\ jobs[j].matched /\ jobs[j].outcome = "SizeExceeded" /\ jobs[j].cleaned
        /\ OutputName(jobs[j].kind, jobs[j].stamp) \notin files

\* C7: an upload is attempted only for a file of at most 150 MiB; a job whose
\* file is larger has sent the size-exceeded message and attempted no upload.
C7_SizeGate ==
    \A j \in JobIds :
        /\ jobs[j].uploads > 0 => (jobs[j].statOk /\ jobs[j].size <= 157286400)
        /\ (jobs[j].statOk /\ jobs[j].size > 157286400) =>
               (jobs[j].outcome = "SizeExceeded" /\ jobs[j].errMsgs = 1 /\ jobs[j].uploads = 0)

C7_Witness ==
    \E i, j \in JobIds :
        /\ jobs[i].size = 209715200 /\ jobs[i].outcome = "SizeExceeded" /\ jobs[i].uploads = 0
        /\ jobs[j].size = 157286400 /\ jobs[j].uploads = 1

\* C8: every emitted progress update is for a percent > 0, the first comes no
\* earlier than 3 seconds after the tracker started, consecutive updates are
\* at least 3 seconds apart, and any 10 seconds hold at most 4 updates.
C8_RateLimit ==
    \A j \in JobIds :
        LET e == trk[j].emitted IN
        /\ \A i \in 1..Len(e) : e[i].pct > 0
        /\ Len(e) >= 1 => e[1].at >= trk[j].started + 3
        /\ \A i \in 1..(Len(e) - 1) : e[i + 1].at - e[i].at >= 3
        /\ \A i, k \in 1..Len(e) : (i <= k /\ e[k].at - e[i].at <= 10) => k - i + 1 <= 4

C8_Witness ==
    \E j \in JobIds :
        /\ Len(trk[j].emitted) = 5
        /\ trk[j].emitted[4].at - trk[j].emitted[1].at <= 10

\* C9: while download jobs exist, the intake loop can always take the next
\* step of the event it is dispatching, and a job that is ready to look for
\* its file or to upload it can do so.
C9_IntakeNeverStopped ==
    /\ loop.pc # "poll" => ENABLED (CbLookup \/ CbBeginStore \/ CbStore)
    /\ \A j \in JobIds : jobs[j].pc \in {"glob", "upload"} => ~crashed

\* C11: when the metadata invocation of a submitted URL failed, the session
\* carries the title "Unknown Title" and an empty thumbnail, the goroutine
\* does not end before it has sent the format-selection message, and once it
\* has ended with the message delivered the session is registered under the
\* key of that message.  (The registration is stated, as C1, for the builds
\* with one `update` per iteration.)
C11_SoftMetadataFailure ==
    \A t \in TaskIds :
        (meta[t].fetchErr /\ meta[t].pc \notin {"free", "fetch"}) =>
            /\ meta[t].info.Title = "Unknown Title"
            /\ meta[t].info.Thumbnail = ""
            /\ Completed(t) => meta[t].sendChat \in Chats
            /\ (~sharedLoopVar /\ Completed(t) /\ meta[t].sendOk) =>
                   /\ <<meta[t].chat, meta[t].sentId>> \in sentSel
                   /\ urlCache[getCacheKey(meta[t].chat, meta[t].sentId)].present
                   /\ urlCache[getCacheKey(meta[t].chat, meta[t].sentId)].URL = meta[t].info.URL
                   /\ urlCache[getCacheKey(meta[t].chat, meta[t].sentId)].Title = "Unknown Title"

C11_Witness ==
    \E t \in TaskIds :
        /\ ~sharedLoopVar /\ meta[t].fetchErr /\ Completed(t) /\ meta[t].sendOk
        /\ urlCache[getCacheKey(meta[t].chat, meta[t].sentId)].Title = "Unknown Title"

\* C10: after a failure to stat the matched file the job has performed the
\* completion edit and goes on to a delivery outcome, and nothing else is
\* stopped.
C10_StatFailureOnlyLogged ==
    \A j \in JobIds :
        (jobs[j].matched /\ ~jobs[j].statOk /\ jobs[j].pc # "stat") =>
            (jobs[j].edited /\ jobs[j].pc \in {"upload", "done"} /\ ~crashed)

\* a supported-platform URL as the specification defines it: the text begins
\* with the scheme marker http:// or https:// and contains, in any letter
\* casing, a domain fragment of one of the four platforms
SchemeMarked(text) == HasPrefix(text, "http://") \/ HasPrefix(text, "https://")
SupportedURL(text) == SchemeMarked(text) /\ detectPlatform(text) # "Unknown"

\* C12: a text message that is not a command and not a supported-platform URL
\* got exactly one error reply, sent to its conversation, when the loop handled
\* it, and no metadata-fetch task and no session exists for such a text.
C12_InvalidTextOnlyReplied ==
    /\ (loop.pc = "poll" /\ update.kind = "msg" /\ update.text # "/start"
           /\ ~SupportedURL(update.text)) =>
          loop.replies = <<[to |-> update.chat, what |-> "invalid URL"]>>
    /\ \A t \in TaskIds : meta[t].pc # "free" => SupportedURL(meta[t].info.URL)
    /\ \A k \in Keys : urlCache[k].present => SupportedURL(urlCache[k].URL)


\* C13: a text that does not begin with http:// or https:// is reported
\* invalid by isValidURL, whatever domain fragments it contains.
C13_NoSchemeIsInvalid ==
    (input.fn = "classify" /\ output.done /\ ~SchemeMarked(input.url)) => ~output.valid

\* the platform the specification assigns: the first, in the order YouTube,
\* Instagram, Facebook, TikTok, one of whose fragments occurs in the
\* lowercased URL; the fragments are those that make a URL valid
ExpectedPlatform(url) ==
    LET l == ToLower(url) IN
    IF Contains(l, "youtube.com") \/ Contains(l, "youtu.be") THEN "YouTube"
    ELSE IF Contains(l, "instagram.com") THEN "Instagram"
    ELSE IF Contains(l, "facebook.com") \/ Contains(l, "fb.com") THEN "Facebook"
    ELSE IF Contains(l, "tiktok.com") THEN "TikTok"
    ELSE "Unknown"

\* C14: a URL with an http:// or https:// prefix that contains a supported
\* domain fragment in any letter casing is reported valid and gets the first
\* platform of the precedence order; a URL with that prefix is valid exactly
\* when a platform is detected (the two use the same fragment sets).
C14_AnyCasingValidWithPrecedence ==
    (input.fn = "classify" /\ output.done /\ SchemeMarked(input.url)) =>
        /\ ExpectedPlatform(input.url) # "Unknown" =>
               (output.valid /\ output.platform = ExpectedPlatform(input.url))
        /\ output.valid <=> output.platform # "Unknown"


\* floor(a / b) for b # 0
Floor(a, b) == IF b > 0 THEN a \div b ELSE (-a) \div (-b)

\* C15: for a line "<integer>/<integer>" with total # 0 parseProgress returns
\* floor(100 * downloaded / total); for every other line it returns 0.
C15_ProgressIsFloor ==
    (input.fn = "parseProgress" /\ output.done) =>
        IF input.form = "pair" /\ input.total # 0
           THEN output.progress = Floor(100 * input.downloaded, input.total)
           ELSE output.progress = 0


\* the value that follows the option opt in the argument list, "" if absent
OptionValue(args, opt) ==
    IF \E i \in 1..(Len(args) - 1) : args[i] = opt
       THEN args[1 + CHOOSE i \in 1..(Len(args) - 1) :
                            args[i] = opt /\ \A k \in 1..(i - 1) : args[k] # opt]
       ELSE ""
HasOption(args, opt) == \E i \in 1..Len(args) : args[i] = opt

\* the policy table of the specification: the format the tool is asked for
PolicyHeights == [q \in {"360p", "480p", "720p"} |->
                     IF q = "360p" THEN "360" ELSE IF q = "480p" THEN "480" ELSE "720"]
PolicyHolds(platform, quality, f) ==
    IF platform = "YouTube" /\ quality \in DOMAIN PolicyHeights
       THEN /\ Contains(f, "bestvideo[height<=" \o PolicyHeights[quality] \o "]+bestaudio")
            /\ Contains(f, "/best[height<=" \o PolicyHeights[quality] \o "]")
            /\ \A q \in DOMAIN PolicyHeights \ {quality} :
                   ~Contains(f, "height<=" \o PolicyHeights[q])
    ELSE IF platform \in {"Instagram", "Facebook", "TikTok"}
       THEN f = (IF quality = "medium" THEN "worst[ext=mp4]/worst" ELSE "best[ext=mp4]/best")
    ELSE f = "best"

\* C16: the arguments built for the tool follow the policy table: a video
\* download asks for the format the table gives for (platform, quality token);
\* an audio download asks for audio extraction as mp3 at quality 0 and for no
\* video format, whatever the platform and token; the certificate-bypass flag
\* is present exactly for Instagram and Facebook, on both paths; the URL is
\* the last argument.
C16_FormatPolicy ==
    (input.fn = "args" /\ output.done) =>
        LET a == output.args IN
        /\ input.format = "video" =>
              /\ PolicyHolds(input.info.Platform, input.quality, OptionValue(a, "-f"))
              /\ ~HasOption(a, "-x")
        /\ input.format = "audio" =>
              /\ HasOption(a, "-x")
              /\ OptionValue(a, "--audio-format") = "mp3"
              /\ OptionValue(a, "--audio-quality") = "0"
              /\ ~HasOption(a, "-f")
        /\ HasOption(a, "--no-check-certificate")
              <=> input.info.Platform \in {"Instagram", "Facebook"}
        /\ a[Len(a)] = input.info.URL

C16_Witness ==
    /\ input.fn = "args" /\ output.done
    /\ input.format = "audio" /\ input.info.Platform = "Facebook" /\ input.quality = "720p"
    /\ HasOption(output.args, "--no-check-certificate")
    /\ OptionValue(output.args, "--audio-format") = "mp3"


\* the states of the job runner, read off a download goroutine
Starting(j) == jobs[j].pc = "start"
JobRunning(j) == jobs[j].pc = "running"
Succeeded(j) == jobs[j].matched
Ended(j) == jobs[j].pc \in {"done", "panicked"}

\* C17: a job is Starting, then Running, then in exactly one of Succeeded
\* (clean exit and a matching file), StartFailed, RunFailed, FileNotFound;
\* after a spawn failure no tracker was started and the process was not waited
\* on; only a job whose process was started and tracked is waited on; the
\* completion edit and every upload come after a clean exit and a match.
C17_JobStateMachine ==
    \A j \in JobIds :
        /\ Starting(j) =>
              (jobs[j].exit = "none" /\ trk[j].pc = "none" /\ ~Succeeded(j) /\ jobs[j].outcome = "")
        /\ JobRunning(j) =>
              (jobs[j].exit = "none" /\ trk[j].pc # "none" /\ ~Succeeded(j) /\ jobs[j].outcome = "")
        /\ jobs[j].outcome = "StartFailed" =>
              (jobs[j].exit = "none" /\ trk[j].pc = "none" /\ ~Succeeded(j))
        /\ jobs[j].outcome = "RunFailed" => (jobs[j].exit = "failed" /\ ~Succeeded(j))
        /\ jobs[j].outcome = "FileNotFound" => (jobs[j].exit = "ok" /\ ~Succeeded(j))
        /\ jobs[j].exit # "none" => trk[j].pc # "none"
        /\ Succeeded(j) => jobs[j].exit = "ok"
        /\ Ended(j) =>
              (Succeeded(j) <=> jobs[j].outcome \notin {"StartFailed", "RunFailed", "FileNotFound"})
        /\ (jobs[j].edited \/ jobs[j].uploads > 0) => (jobs[j].exit = "ok" /\ Succeeded(j))

C17_Witness ==
    \E i, j \in JobIds :
        /\ Ended(i) /\ Succeeded(i) /\ jobs[i].edited /\ jobs[i].uploads = 1 /\ jobs[i].exit = "ok"
        /\ Ended(j) /\ jobs[j].outcome = "StartFailed" /\ trk[j].pc = "none"


\* the job has taken its timestamp and has not returned
InFlight(j) == jobs[j].pc \in {"running", "glob", "stat", "upload"}

\* C18: no two jobs in flight at the same time use the same output pattern
\* (so that no job's search matches, uploads or removes another job's file).
C18_OutputNamesDistinct ==
    \A i, j \in JobIds :
        (i # j /\ InFlight(i) /\ InFlight(j)) =>
            OutputName(jobs[i].kind, jobs[i].stamp) # OutputName(jobs[j].kind, jobs[j].stamp)


\* C19: within one job no progress edit of the status message is issued after
\* the job's completion edit of that message.
C19_NoProgressAfterCompletion ==
    \A j \in JobIds :
        \A n \in 1..Len(trk[j].emitted) : ~trk[j].emitted[n].late


\* C20: the metadata goroutine of a URL message builds both registry keys and
\* addresses the selection message with the conversation id of the message
\* that submitted the URL, whatever the intake loop has received since.
C20_TaskUsesSubmittingChat ==
    \A t \in TaskIds :
        /\ meta[t].pc \in {"w_prov", "send", "sent", "w_perm", "d_prov", "thumb", "done"} =>
              meta[t].key0 = getCacheKey(meta[t].chat, 0)
        /\ meta[t].pc \in {"sent", "w_perm", "d_prov", "thumb", "done"} =>
              meta[t].sendChat = meta[t].chat
        /\ meta[t].pc \in {"w_perm", "d_prov", "thumb", "done"} =>
              meta[t].key1 = getCacheKey(meta[t].chat, meta[t].sentId)

==========================================================================
